---- MODULE Spec2Model ----
(***************************************************************************)
(* A model of the Device Timer plugin (plugin.py): the tracker registry,   *)
(* the interval store, the window aggregator, the baseline ledger, the     *)
(* on-event counter, the midnight rollover and the periodic loop.          *)
(*                                                                         *)
(* Units.  Timestamps are whole seconds since midnight of day 0; every     *)
(* timestamp of the model is a multiple of 15 s (the refresh interval).    *)
(* Minutes are held in tenths of a minute (the plugin rounds every minute  *)
(* value to one decimal place), so 1440.0 min is 14400.                    *)
(* The absent value None of the code is the number -1, which is no         *)
(* timestamp, no date and no device id.                                    *)
(***************************************************************************)
EXTENDS Integers, Sequences, FiniteSets, TLC

VARIABLES
    now,            \* indigo.server.getTime(), the host clock
    devState,       \* onState of every target device ("none": no onState)
    states,         \* the state sink: timer device id -> key -> value
    current_date,   \* Plugin._current_date
    trackers,       \* Plugin.trackers: timer device id -> tracker
    by_target,      \* Plugin.by_target: target id -> set of timer ids
    captured,       \* history: what each registration read from the sink
    rolled,         \* history: when each tracker was last rolled over (or None)
    ticked,         \* history: the last step was a pass of the periodic loop
    nreg,           \* history: the number of registrations so far
    loop,           \* the periodic loop's position and locals
    ev,             \* the event callback's position and locals
    reg,            \* the registration call's position and locals
    calc,           \* the arguments and results of one aggregator or store call
    stopThread,     \* the host's shutdown signal (PluginBase.stopThread)
    failed,         \* history: how the sink took each timer's publishes
    uninterrupted   \* history: the offsets a whole rollover would have left

\* The variables only the stepwise loop changes.
passVars == <<stopThread, failed, uninterrupted>>

vars == <<now, devState, states, current_date, trackers, by_target,
          captured, rolled, ticked, nreg, loop, ev, reg, calc, passVars>>

----------------------------------------------------------------------------
(* Program constants *)

None == -1

REFRESH_INTERVAL_SECS == 15

DAY == 24 * 3600

HALF_DAY == 12 * 3600

WINDOWS ==
    << [id |-> "timeon_24hours", secs |-> 24 * 3600],
       [id |-> "timeon_48hours", secs |-> 48 * 3600],
       [id |-> "timeon_72hours", secs |-> 72 * 3600],
       [id |-> "timeon_96hours", secs |-> 96 * 3600],
       [id |-> "timeon_5days",   secs |-> 5 * 24 * 3600],
       [id |-> "timeon_6days",   secs |-> 6 * 24 * 3600],
       [id |-> "timeon_1week",   secs |-> 7 * 24 * 3600],
       [id |-> "timeon_2weeks",  secs |-> 14 * 24 * 3600],
       [id |-> "timeon_3weeks",  secs |-> 21 * 24 * 3600] >>

WindowIds == {WINDOWS[i].id : i \in 1..Len(WINDOWS)}

RETENTION_SECONDS == WINDOWS[Len(WINDOWS)].secs

----------------------------------------------------------------------------
(* Bounds of the model *)

MaxDay == 2

MaxIntervals == 2

MaxEvents == 2

MaxRegisters == 1

\* The closed intervals of an interval list the aggregator is applied to.
MaxPureLen == 2

\* The registrations of a run of the registry with both timers.
MaxIndexRegisters == 3

\* The timers whose publish raises in a run of the stepwise loop.
MaxFailures == 1

\* Registrations and restarts in a run of the restart specification.
MaxRestartRegisters == 2

\* The timer devices of the plugin and the devices they may track.  Device 10
\* has an onState; device 11 is a device without one; id 12 names no device.
Timers == {1, 2}

Devices == {10, 11}

OnValues(g) == IF g = 10 THEN {"on", "off"} ELSE {"none"}

\* Values of the configuration field targetDeviceId.
ConfigValues == {"", "abc", "10", "11", "12"}

\* The timers the main specification starts and stops.
MainTimers == {1}

\* The clock values of the model: noon of day 0, then the midnight of every
\* day up to MaxDay and the instant one refresh interval after it (the first
\* tick of the date).
ClockGrid ==
    {12 * 3600}
    \cup {d * (24 * 3600) + o : d \in 1..MaxDay, o \in {0, REFRESH_INTERVAL_SECS}}

----------------------------------------------------------------------------
(* Arithmetic of the clock and of the published minutes *)

Max(a, b) == IF a >= b THEN a ELSE b

Min(a, b) == IF a <= b THEN a ELSE b

\* now.date()
DateOf(t) == t \div DAY

\* now.replace(hour=0, minute=0, second=0, microsecond=0)
TodayStart(t) == DateOf(t) * DAY

\* today_start - timedelta(days=1)
YdayStart(t) == TodayStart(t) - DAY

\* round(seconds / 60.0, 1) in tenths of a minute.  seconds / 60.0 is exact
\* in binary floating point when seconds is a multiple of 15, and Python's
\* round() then breaks the tie seconds = 6q + 3 to the even tenth.
RoundMinutes(seconds) ==
    LET q == seconds \div 6
        r == seconds % 6
    IN  IF r < 3 THEN q
        ELSE IF r > 3 THEN q + 1
        ELSE IF q % 2 = 0 THEN q ELSE q + 1

\* round(a + b, 1) of two values that have one decimal place each.
AddMinutes(a, b) == a + b

----------------------------------------------------------------------------
(* Window aggregator *)

IsOpen(iv) == iv[2] = None

LastOpen(intervals) ==
    Len(intervals) > 0 /\ IsOpen(intervals[Len(intervals)])

\* One iteration of the loop of _compute_on_seconds_between.
OverlapBetween(iv, start_ts, end_ts) ==
    LET s0 == iv[1]
        e0 == IF iv[2] = None THEN end_ts ELSE iv[2]
    IN  IF e0 <= start_ts \/ s0 >= end_ts THEN 0
        ELSE LET overlap_start == Max(s0, start_ts)
                 overlap_end   == Min(e0, end_ts)
             IN  IF overlap_end > overlap_start
                 THEN overlap_end - overlap_start ELSE 0

RECURSIVE _compute_on_seconds_between(_, _, _)
_compute_on_seconds_between(intervals, start_ts, end_ts) ==
    IF intervals = <<>> THEN 0
    ELSE OverlapBetween(Head(intervals), start_ts, end_ts)
         + _compute_on_seconds_between(Tail(intervals), start_ts, end_ts)

\* Fault: an open interval counted as ended where it started.
OverlapWindowClosedOnly(iv, t, window_seconds) ==
    IF iv[2] = None THEN 0 ELSE OverlapBetween(iv, t - window_seconds, t)

\* One iteration of the loop of _compute_on_seconds.
OverlapWindow(iv, t, window_seconds) ==
    LET window_start == t - window_seconds
        s == iv[1]
        e == IF iv[2] = None THEN t ELSE iv[2]
    IN  IF e <= window_start \/ s >= t THEN 0
        ELSE LET overlap_start == Max(s, window_start)
                 overlap_end   == Min(e, t)
             IN  IF overlap_end > overlap_start
                 THEN overlap_end - overlap_start ELSE 0

RECURSIVE _compute_on_seconds(_, _, _)
_compute_on_seconds(intervals, t, window_seconds) ==
    IF intervals = <<>> THEN 0
    ELSE OverlapWindow(Head(intervals), t, window_seconds)
         + _compute_on_seconds(Tail(intervals), t, window_seconds)

----------------------------------------------------------------------------
(* Interval store and event counter *)

\* Fault: pruning with a horizon of one day.
KeepIntervalDay(iv, t) ==
    ~((IF iv[2] = None THEN t ELSE iv[2]) <= t - DAY)

KeepInterval(iv, t) ==
    LET horizon       == t - RETENTION_SECONDS
        effective_end == IF iv[2] = None THEN t ELSE iv[2]
    IN  ~(effective_end <= horizon)

_prune_intervals(intervals, t) ==
    SelectSeq(intervals, LAMBDA iv : KeepInterval(iv, t))

KeepEvent(e, t) == e >= YdayStart(t)

_prune_on_events(events, t) ==
    SelectSeq(events, LAMBDA e : KeepEvent(e, t))

\* sum(1 for t in on_events if lo <= t < hi)
CountEvents(events, lo, hi) ==
    Cardinality({i \in 1..Len(events) : lo <= events[i] /\ events[i] < hi})

----------------------------------------------------------------------------
(* Finite maps (Python dicts) *)

EmptyMap == [k \in {} |-> None]

MapGet(m, k, default) == IF k \in DOMAIN m THEN m[k] ELSE default

MapPut(m, k, v) == [x \in DOMAIN m \cup {k} |-> IF x = k THEN v ELSE m[x]]

MapDel(m, k) == [x \in DOMAIN m \ {k} |-> m[x]]

\* dict.update: the entries of kv over those of m
MapUpdate(m, kv) ==
    [x \in DOMAIN m \cup DOMAIN kv |-> IF x \in DOMAIN kv THEN kv[x] ELSE m[x]]

----------------------------------------------------------------------------
(* The state sink: what _update_timer_states and _update_target_meta_states
   hand to updateStatesOnServer.  The _text companions of the minute values
   are formatted copies of them and are left out. *)

DayKeys == {"timeon_today", "timeoff_today", "timeon_yesterday",
            "timeoff_yesterday", "oncount_yesterday", "oncount_today"}

MetricKeys == WindowIds \cup DayKeys

WindowSecs(k) == WINDOWS[CHOOSE i \in 1..Len(WINDOWS) : WINDOWS[i].id = k].secs

DeviceName(g) == IF g = 10 THEN "Lamp" ELSE "Sensor"

\* The key/value list of _update_target_meta_states(timer_dev, target_dev) for
\* the device target with onState on_val; target None: no device.
TargetMeta(target, on_val) ==
    IF target \in Devices
    THEN [k \in {"target_device_id", "target_device_name", "target_on_state"} |->
            IF k = "target_device_id" THEN target
            ELSE IF k = "target_device_name" THEN DeviceName(target)
            ELSE on_val = "on"]
    ELSE [k \in {"target_device_id", "target_device_name", "target_on_state"} |->
            IF k = "target_device_id" THEN 0
            ELSE IF k = "target_device_name" THEN "--"
            ELSE FALSE]

\* Fault: the today count without its lower bound today_start.
CountTodayAll(on_events, t) == Len(on_events)

\* sum(1 for t in on_events if today_start <= t < now)
CountToday(on_events, t) == CountEvents(on_events, TodayStart(t), t)

\* Fault: yesterday derived again from the intervals and events on every
\* publish.
YesterdayNeverLocked(tracker, t) == FALSE

\* y_locked_date == now.date()
YesterdayLocked(tracker, t) == tracker.yesterday_locked_for_date = DateOf(t)

\* The key/value list of _update_timer_states(timer_dev, tracker, now).
TimerStates(tracker, t) ==
    LET intervals     == tracker.intervals
        offsets       == tracker.offsets
        day_offsets   == tracker.day_offsets
        count_offsets == tracker.count_offsets
        today_start   == TodayStart(t)
        yday_start    == YdayStart(t)
        minutes_today == RoundMinutes(_compute_on_seconds_between(intervals, today_start, t))
        minutes_today_total == AddMinutes(minutes_today, day_offsets.today)
        elapsed_today_minutes == RoundMinutes(t - today_start)
        off_today_minutes == Max(0, elapsed_today_minutes - minutes_today_total)
        minutes_yday  == RoundMinutes(_compute_on_seconds_between(intervals, yday_start, today_start))
        minutes_yday_total ==
            IF YesterdayLocked(tracker, t) THEN day_offsets.yesterday
            ELSE AddMinutes(minutes_yday, day_offsets.yesterday)
        full_day_minutes == 24 * 60 * 10
        off_yday_minutes == Max(0, full_day_minutes - minutes_yday_total)
        on_events     == tracker.on_events
        count_today_total == CountToday(on_events, t) + count_offsets.today
        yday_count_since  == CountEvents(on_events, yday_start, today_start)
        count_yday_total ==
            IF YesterdayLocked(tracker, t) THEN count_offsets.yesterday
            ELSE yday_count_since + count_offsets.yesterday
    IN  [k \in MetricKeys |->
            IF k \in WindowIds
            THEN AddMinutes(RoundMinutes(_compute_on_seconds(intervals, t, WindowSecs(k))),
                            MapGet(offsets, k, 0))
            ELSE IF k = "timeon_today" THEN minutes_today_total
            ELSE IF k = "timeoff_today" THEN off_today_minutes
            ELSE IF k = "timeon_yesterday" THEN minutes_yday_total
            ELSE IF k = "timeoff_yesterday" THEN off_yday_minutes
            ELSE IF k = "oncount_yesterday" THEN count_yday_total
            ELSE count_today_total]

\* timer_dev.updateStatesOnServer(kv_list) at the end of _update_timer_states
_update_timer_states(sink, d, tracker, t) ==
    [sink EXCEPT ![d] = MapUpdate(sink[d], TimerStates(tracker, t))]

_update_target_meta_states(sink, d, target, on_val) ==
    [sink EXCEPT ![d] = MapUpdate(sink[d], TargetMeta(target, on_val))]

----------------------------------------------------------------------------
(* Tracker registry and target index *)

IsNumeric(target_str) == target_str \in {"10", "11", "12"}

\* int(target_str)
IntOf(target_str) ==
    IF target_str = "10" THEN 10 ELSE IF target_str = "11" THEN 11 ELSE 12

\* indigo.devices.get(target_id) is a device
DeviceExists(target_id) == target_id \in Devices

\* getattr(target_dev, "onState", None) of the device, "none" when there is
\* no such device
OnStateOf(target_id) == IF DeviceExists(target_id) THEN devState[target_id] ELSE "none"

\* target_dev exists and its onState is true
CurrentOn(target_id) == OnStateOf(target_id) = "on"

\* Fault: an inert tracker that carries over a day total of 30.0 min.
InertTrackerWithBaseline(lock) ==
    [ target_id     |-> None,
      intervals     |-> <<>>,
      offsets       |-> EmptyMap,
      day_offsets   |-> [today |-> 300, yesterday |-> 0],
      count_offsets |-> [today |-> 0, yesterday |-> 0],
      on_events     |-> <<>>,
      yesterday_locked_for_date |-> lock ]

\* The tracker of the branches "no target selected" (lock = today's date)
\* and "invalid targetDeviceId" (no yesterday_locked_for_date key: lock None).
InertTracker(lock) ==
    [ target_id     |-> None,
      intervals     |-> <<>>,
      offsets       |-> EmptyMap,
      day_offsets   |-> [today |-> 0, yesterday |-> 0],
      count_offsets |-> [today |-> 0, yesterday |-> 0],
      on_events     |-> <<>>,
      yesterday_locked_for_date |-> lock ]

\* Fault: registration that starts every rolling window from zero.
CaptureOffsetsZero(sink_d) == [k \in WindowIds |-> 0]

\* Baselines read from the state sink, absent values as 0.
CaptureOffsets(sink_d) == [k \in WindowIds |-> MapGet(sink_d, k, 0)]

CaptureDayOffsets(sink_d) ==
    [today     |-> MapGet(sink_d, "timeon_today", 0),
     yesterday |-> MapGet(sink_d, "timeon_yesterday", 0)]

CaptureCountOffsets(sink_d) ==
    [today     |-> MapGet(sink_d, "oncount_today", 0),
     yesterday |-> MapGet(sink_d, "oncount_yesterday", 0)]

\* The tracker _register_tracker stores for a numeric target id.
\* Fault: a registration that counts the interval it opens as an on-event.
TargetTrackerCountsOpen(target_id, sink_d, t) ==
    [ target_id     |-> target_id,
      intervals     |-> IF CurrentOn(target_id) THEN << <<t, None>> >> ELSE <<>>,
      offsets       |-> CaptureOffsets(sink_d),
      day_offsets   |-> CaptureDayOffsets(sink_d),
      count_offsets |-> CaptureCountOffsets(sink_d),
      on_events     |-> IF CurrentOn(target_id) THEN <<t>> ELSE <<>>,
      yesterday_locked_for_date |-> DateOf(t) ]

TargetTracker(target_id, sink_d, t) ==
    [ target_id     |-> target_id,
      intervals     |-> IF CurrentOn(target_id) THEN << <<t, None>> >> ELSE <<>>,
      offsets       |-> CaptureOffsets(sink_d),
      day_offsets   |-> CaptureDayOffsets(sink_d),
      count_offsets |-> CaptureCountOffsets(sink_d),
      on_events     |-> <<>>,
      yesterday_locked_for_date |-> DateOf(t) ]

NewTracker(target_str, sink_d, t) ==
    IF target_str = "" THEN InertTracker(DateOf(t))
    ELSE IF ~IsNumeric(target_str) THEN InertTracker(None)
    ELSE TargetTracker(IntOf(target_str), sink_d, t)

\* Fault: a discard that leaves an emptied entry in the index.
IndexDiscardKeepEmpty(index, tgt, d) ==
    IF tgt \in DOMAIN index THEN MapPut(index, tgt, index[tgt] \ {d}) ELSE index

\* self.by_target[tgt].discard(d), and del self.by_target[tgt] when empty
IndexDiscard(index, tgt, d) ==
    IF tgt \in DOMAIN index
    THEN IF index[tgt] \ {d} = {} THEN MapDel(index, tgt)
         ELSE MapPut(index, tgt, index[tgt] \ {d})
    ELSE index

\* self.by_target.setdefault(target_id, set()).add(d)
IndexAdd(index, target_id, d) ==
    MapPut(index, target_id, MapGet(index, target_id, {}) \cup {d})

\* Fault: an unregister that pops the tracker and leaves the index alone.
UnregisteredIndexStale(table, index, d) == index

\* by_target after _unregister_tracker(d)
UnregisteredIndex(table, index, d) ==
    IF d \in DOMAIN table THEN IndexDiscard(index, table[d].target_id, d)
    ELSE index

\* by_target after _register_tracker(d): the inert branches return before
\* the index is touched.
RegisteredIndex(table, index, d, target_str) ==
    IF target_str # "" /\ IsNumeric(target_str)
    THEN IndexAdd(UnregisteredIndex(table, index, d), IntOf(target_str), d)
    ELSE UnregisteredIndex(table, index, d)

\* The target whose meta states registration publishes (None: the placeholder)
RegisteredMeta(target_str) ==
    IF target_str # "" /\ IsNumeric(target_str) THEN IntOf(target_str) ELSE None

\* History of a registration: the baselines it read and its date.
BaselinesOf(tracker, t) ==
    [offsets       |-> tracker.offsets,
     day_offsets   |-> tracker.day_offsets,
     count_offsets |-> tracker.count_offsets,
     date          |-> DateOf(t)]

\* History of a registration: the target of the tracker it replaced (None:
\* it replaced no tracker, or an inert one).
Replaced(table, d) ==
    [replaced |-> IF d \in DOMAIN table THEN table[d].target_id ELSE None]

\* History of a registration: the targetDeviceId it found.
Configured(target_str) == [config |-> target_str]

----------------------------------------------------------------------------
(* on_target_changed: the body of the loop of deviceUpdated over the timers *)

\* Fault: an interval opened at the start of the day of the event.
OpenIntervalBackdated(intervals, t) ==
    IF ~LastOpen(intervals) THEN Append(intervals, <<TodayStart(t), None>>) ELSE intervals

OpenInterval(intervals, t) ==
    IF ~LastOpen(intervals) THEN Append(intervals, <<t, None>>) ELSE intervals

CloseInterval(intervals, t) ==
    IF LastOpen(intervals)
    THEN [intervals EXCEPT ![Len(intervals)] = <<intervals[Len(intervals)][1], t>>]
    ELSE intervals

RecordEvent(on_events, t) == Append(on_events, t)

ApplyChange(tracker, new_on, t) ==
    IF new_on = "on"
    THEN [tracker EXCEPT !.intervals = OpenInterval(tracker.intervals, t),
                         !.on_events = RecordEvent(tracker.on_events, t)]
    ELSE [tracker EXCEPT !.intervals = CloseInterval(tracker.intervals, t)]

\* Fault: every update of the target taken for a transition.
AnyUpdateIsTransition(old_on, new_on) == TRUE

\* old_on/new_on differ and are not both None
IsTransition(old_on, new_on) ==
    ~((old_on = "none" /\ new_on = "none") \/ old_on = new_on)

----------------------------------------------------------------------------
(* The periodic loop: rollover and the per-tracker sweep *)

\* Fault: a rollover on every pass of the loop.
RolloverAlways(t) == current_date # None

RolloverDue(t) == current_date # None /\ DateOf(t) # current_date

\* Fault: a rollover that also resets the baselines of the rolling windows.
RolloverResetsWindows(tracker, t) ==
    [tracker EXCEPT
        !.offsets = [k \in DOMAIN tracker.offsets |-> 0],
        !.day_offsets =
            [today |-> 0,
             yesterday |->
                AddMinutes(RoundMinutes(_compute_on_seconds_between(
                               tracker.intervals, YdayStart(t), TodayStart(t))),
                           tracker.day_offsets.today)],
        !.count_offsets =
            [today |-> 0,
             yesterday |-> CountEvents(tracker.on_events, YdayStart(t), TodayStart(t))
                           + tracker.count_offsets.today],
        !.yesterday_locked_for_date = DateOf(t)]

\* Fault: a rollover that does not lock yesterday for the new date.
RolloverNoLock(tracker, t) ==
    [tracker EXCEPT
        !.day_offsets =
            [today |-> 0,
             yesterday |->
                AddMinutes(RoundMinutes(_compute_on_seconds_between(
                               tracker.intervals, YdayStart(t), TodayStart(t))),
                           tracker.day_offsets.today)],
        !.count_offsets =
            [today |-> 0,
             yesterday |-> CountEvents(tracker.on_events, YdayStart(t), TodayStart(t))
                           + tracker.count_offsets.today]]

\* Fault: a rollover that leaves the today baseline out of yesterday's
\* totals.
RolloverDropsBaseline(tracker, t) ==
    [tracker EXCEPT
        !.day_offsets =
            [today |-> 0,
             yesterday |-> RoundMinutes(_compute_on_seconds_between(
                               tracker.intervals, YdayStart(t), TodayStart(t)))],
        !.count_offsets =
            [today |-> 0,
             yesterday |-> CountEvents(tracker.on_events, YdayStart(t), TodayStart(t))],
        !.yesterday_locked_for_date = DateOf(t)]

\* Lines 357-380 for one tracker.
Rollover(tracker, t) ==
    LET today_start == TodayStart(t)
        yday_start  == YdayStart(t)
        minutes_finished_day_since ==
            RoundMinutes(_compute_on_seconds_between(tracker.intervals, yday_start, today_start))
        minutes_finished_day_total ==
            AddMinutes(minutes_finished_day_since, tracker.day_offsets.today)
        yday_count_since == CountEvents(tracker.on_events, yday_start, today_start)
        yday_count_total == yday_count_since + tracker.count_offsets.today
    IN  [tracker EXCEPT
            !.day_offsets   = [today |-> 0, yesterday |-> minutes_finished_day_total],
            !.count_offsets = [today |-> 0, yesterday |-> yday_count_total],
            !.yesterday_locked_for_date = DateOf(t)]

\* Fault: the sweep opens an interval without testing for an open one.
SynthesizeAlways(intervals, target_id, t) ==
    IF CurrentOn(target_id) THEN Append(intervals, <<t, None>>) ELSE intervals

\* Fault: a sweep that opens no interval.
SynthesizeNever(intervals, target_id, t) == intervals

\* Lines 390-405 for one tracker: prune, then open an interval when the
\* target is on and none is open.
Synthesize(intervals, target_id, t) ==
    IF CurrentOn(target_id) /\ ~LastOpen(intervals)
    THEN Append(intervals, <<t, None>>) ELSE intervals

SweepTracker(tracker, t) ==
    [tracker EXCEPT
        !.intervals = Synthesize(_prune_intervals(tracker.intervals, t), tracker.target_id, t),
        !.on_events = _prune_on_events(tracker.on_events, t)]

\* Lines 397-408: what the sweep publishes for one tracker.
SweepPublish(sink, d, tracker, t) ==
    _update_timer_states(
        IF DeviceExists(tracker.target_id)
        THEN _update_target_meta_states(sink, d, tracker.target_id, OnStateOf(tracker.target_id))
        ELSE sink,
        d, tracker, t)

----------------------------------------------------------------------------
(* Initial state: the plugin constructed, no device started yet *)

\* What an earlier session of the plugin left in a timer's states.
PreviousSink ==
    [k \in MetricKeys |->
        IF k \in WindowIds THEN 300
        ELSE IF k = "timeon_today" THEN 300
        ELSE IF k = "timeoff_today" THEN 6900
        ELSE IF k = "timeon_yesterday" THEN 600
        ELSE IF k = "timeoff_yesterday" THEN 13800
        ELSE IF k = "oncount_yesterday" THEN 1
        ELSE 2]

\* The history of a timer that is not registered.
ZeroBaselines ==
    [offsets       |-> EmptyMap,
     day_offsets   |-> [today |-> 0, yesterday |-> 0],
     count_offsets |-> [today |-> 0, yesterday |-> 0],
     date          |-> None]

\* The loop asleep, no event callback running, no registration running.
LoopIdle == [pc |-> "sleep", now |-> None, d |-> None, detached |-> FALSE, append |-> FALSE]

EvIdle ==
    [pc |-> "idle", new_on |-> "none", now |-> None, ids |-> {}, d |-> None,
     detached |-> FALSE, append |-> FALSE]

RegIdle == [pc |-> "idle", target_str |-> "", old |-> InertTracker(None)]

CalcIdle == [op |-> "idle"]

\* No publish of any timer has raised.
NoFailure == [d \in Timers |-> "never"]

\* No rollover is under way.
NoRollover ==
    [d \in Timers |->
        [date          |-> None,
         day_offsets   |-> [today |-> 0, yesterday |-> 0],
         count_offsets |-> [today |-> 0, yesterday |-> 0]]]

Init ==
    /\ now = HALF_DAY
    /\ devState \in {[g \in Devices |-> IF g = 10 THEN v ELSE "none"] : v \in {"on", "off"}}
    /\ states \in {[d \in Timers |-> sink] : sink \in {EmptyMap, PreviousSink}}
    /\ current_date = DateOf(now)
    /\ trackers = EmptyMap
    /\ by_target = EmptyMap
    /\ captured = [d \in Timers |-> ZeroBaselines]
    /\ rolled = [d \in Timers |-> None]
    /\ ticked = FALSE
    /\ nreg = 0
    /\ loop = LoopIdle
    /\ ev = EvIdle
    /\ reg = RegIdle
    /\ calc = CalcIdle
    /\ stopThread = FALSE
    /\ failed = NoFailure
    /\ uninterrupted = NoRollover

----------------------------------------------------------------------------
(* The operations, each as one step *)

\* Time passes.
Advance(t) ==
    /\ t \in ClockGrid
    /\ now < t
    /\ now' = t
    /\ ticked' = FALSE
    /\ UNCHANGED <<devState, states, current_date, trackers, by_target,
                   captured, rolled, nreg, loop, ev, reg, calc, passVars>>

\* deviceStartComm -> _register_tracker(timer_dev) with the configured
\* targetDeviceId target_str.
RegisterTimer(d, target_str) ==
    /\ nreg' = nreg + 1
    /\ LET tracker == NewTracker(target_str, states[d], now)
       IN  /\ trackers' = MapPut(MapDel(trackers, d), d, tracker)
           /\ by_target' = RegisteredIndex(trackers, by_target, d, target_str)
           /\ states' = _update_target_meta_states(states, d, RegisteredMeta(target_str),
                                                    OnStateOf(RegisteredMeta(target_str)))
           /\ captured' = [captured EXCEPT ![d] = BaselinesOf(tracker, now)
                                                  @@ Replaced(trackers, d)
                                                  @@ Configured(target_str)]
    /\ rolled' = [rolled EXCEPT ![d] = None]
    /\ ticked' = FALSE
    /\ UNCHANGED <<now, devState, current_date, loop, ev, reg, calc, passVars>>

Register(d, target_str) ==
    /\ nreg < MaxRegisters
    /\ RegisterTimer(d, target_str)

\* deviceStopComm -> _unregister_tracker(timer_dev)
Unregister(d) ==
    /\ d \in DOMAIN trackers
    /\ trackers' = MapDel(trackers, d)
    /\ by_target' = UnregisteredIndex(trackers, by_target, d)
    /\ captured' = [captured EXCEPT ![d] = ZeroBaselines]
    /\ rolled' = [rolled EXCEPT ![d] = None]
    /\ ticked' = FALSE
    /\ UNCHANGED <<now, devState, states, current_date, nreg, loop, ev, reg, calc, passVars>>

\* The trackers deviceUpdated changes for the timers timer_ids.
ChangedTrackers(table, timer_ids, new_on, t) ==
    [d \in DOMAIN table |->
        IF d \in timer_ids THEN ApplyChange(table[d], new_on, t) ELSE table[d]]

\* The sink after deviceUpdated: the meta refresh of every timer of the
\* target, then the publish of every tracker changed.
ChangedSink(sink, table, timer_ids, g, new_on, transition, t) ==
    [d \in Timers |->
        IF d \in timer_ids
        THEN LET meta == _update_target_meta_states(sink, d, g, new_on)
             IN  IF transition /\ d \in DOMAIN table
                 THEN _update_timer_states(meta, d, table[d], t)[d]
                 ELSE meta[d]
        ELSE sink[d]]

WithinBounds(table) ==
    \A d \in DOMAIN table :
        /\ Len(table[d].intervals) <= MaxIntervals
        /\ Len(table[d].on_events) <= MaxEvents

\* The host changes device g (onState becomes new_on) and calls
\* deviceUpdated(orig_dev, new_dev).
DeviceUpdated(g, new_on) ==
    /\ new_on \in OnValues(g)
    /\ LET old_on     == devState[g]
           timer_ids  == MapGet(by_target, g, {})
           transition == IsTransition(old_on, new_on)
           table      == IF transition
                         THEN ChangedTrackers(trackers, timer_ids, new_on, now)
                         ELSE trackers
       IN  /\ WithinBounds(table)
           /\ devState' = [devState EXCEPT ![g] = new_on]
           /\ trackers' = table
           /\ states' = ChangedSink(states, table, timer_ids, g, new_on, transition, now)
    /\ ticked' = FALSE
    /\ UNCHANGED <<now, current_date, by_target, captured, rolled, nreg, loop, ev, reg, calc, passVars>>

\* Device g changes and no deviceUpdated call reaches the plugin (startup
\* logs a failed subscribeToChanges and carries on).
Missed(g, new_on) ==
    /\ new_on \in OnValues(g)
    /\ new_on # devState[g]
    /\ devState' = [devState EXCEPT ![g] = new_on]
    /\ ticked' = FALSE
    /\ UNCHANGED <<now, states, current_date, trackers, by_target, captured,
                   rolled, nreg, loop, ev, reg, calc, passVars>>

\* One pass of the loop of runConcurrentThread: the rollover check, then
\* the sweep over every tracker.
RolledTable(table, t) ==
    IF RolloverDue(t) THEN [d \in DOMAIN table |-> Rollover(table[d], t)] ELSE table

SweptTable(table, t) == [d \in DOMAIN table |-> SweepTracker(table[d], t)]

SweptSink(sink, table, t) ==
    [d \in Timers |->
        IF d \in DOMAIN table THEN SweepPublish(sink, d, table[d], t)[d] ELSE sink[d]]

Tick ==
    /\ LET table == SweptTable(RolledTable(trackers, now), now)
       IN  /\ WithinBounds(table)
           /\ trackers' = table
           /\ states' = SweptSink(states, table, now)
    /\ rolled' = [d \in Timers |->
                     IF RolloverDue(now) /\ d \in DOMAIN trackers THEN now ELSE rolled[d]]
    /\ current_date' = DateOf(now)
    /\ ticked' = TRUE
    /\ UNCHANGED <<now, devState, by_target, captured, nreg, loop, ev, reg, calc, passVars>>

Next ==
    \/ \E t \in ClockGrid : Advance(t)
    \/ \E d \in MainTimers, target_str \in ConfigValues : Register(d, target_str)
    \/ \E d \in MainTimers : Unregister(d)
    \/ \E g \in Devices, new_on \in {"on", "off", "none"} : DeviceUpdated(g, new_on)
    \/ \E g \in Devices, new_on \in {"on", "off"} : Missed(g, new_on)
    \/ Tick

Spec == Init /\ [][Next]_vars

----------------------------------------------------------------------------
(* The registry and the target index with both timers (SpecIndex): the
   timers are started, stopped and reconfigured in any order, and the host
   delivers device changes and the loop passes in between, all at one reading
   of the clock. *)

NextIndex ==
    \/ \E d \in Timers, target_str \in ConfigValues :
          nreg < MaxIndexRegisters /\ RegisterTimer(d, target_str)
    \/ \E d \in Timers : Unregister(d)
    \/ \E g \in Devices, new_on \in {"on", "off", "none"} : DeviceUpdated(g, new_on)
    \/ Tick

SpecIndex == Init /\ [][NextIndex]_vars

\* The target ids an index entry can stand under: the devices, and the id
\* that names no device.
IndexTargets == {IntOf(target_str) : target_str \in {c \in ConfigValues : IsNumeric(c)}}

\* C11: between operations, timer t is a member of the index entry of target
\* g if and only if t is in the tracker registry and its target_id is g.
C11_IndexMatchesRegistry ==
    \A t \in Timers, g \in IndexTargets \cup DOMAIN by_target :
        (g \in DOMAIN by_target /\ t \in by_target[g])
        <=> (t \in DOMAIN trackers /\ trackers[t].target_id = g)

\* C11 witness: both timers registered, on different targets, one of which
\* names no device.
C11_Witness ==
    /\ DOMAIN trackers = Timers
    /\ trackers[1].target_id = 12
    /\ trackers[2].target_id = 10
    /\ by_target[12] = {1}
    /\ by_target[10] = {2}

\* C12: a step that re-registers a tracker of target A for another target B
\* leaves the tracker a member of B's entry and of no other entry; and no
\* entry of the index is ever the empty set.
C12_RetargetMovesMembership ==
    [][/\ \A d \in DOMAIN trackers \cap DOMAIN trackers' :
             LET a == trackers[d].target_id
                 b == trackers'[d].target_id
             IN  (a # None /\ b # None /\ a # b)
                 => /\ b \in DOMAIN by_target'
                    /\ d \in by_target'[b]
                    /\ \A g \in DOMAIN by_target' \ {b} : d \notin by_target'[g]
                    /\ a \in DOMAIN by_target' => d \notin by_target'[a]
       /\ \A g \in DOMAIN by_target' : by_target'[g] # {}]_vars

\* C12 witness: timer 1 was moved from target 10, which timer 2 still
\* tracks, to target 11, whose entry it alone makes up.
C12_Witness ==
    /\ DOMAIN trackers = Timers
    /\ captured[1].replaced = 10
    /\ trackers[1].target_id = 11
    /\ trackers[2].target_id = 10
    /\ by_target = MapPut(MapPut(EmptyMap, 10, {2}), 11, {1})

----------------------------------------------------------------------------
(* The plugin with its entry points interleaved (SpecRace).
   runConcurrentThread runs on a thread of its own, and the host calls
   deviceUpdated and deviceStartComm.  The plugin takes no lock and orders no
   entry point after another, so each of the three yields to the others
   between its reads and writes of the shared tables.  Timer 1 starts registered on device 10 over an empty sink, and
   the interleavings are those of one reading of the clock.

   A tracker is a Python dict that trackers[d] refers to.  A thread that
   fetched the dict keeps it when _unregister_tracker pops it from the table:
   the popped dict is reg.old, and detached says that a thread holds it. *)

RaceTimer == 1

RaceConfigValues == {"10", "11"}

\* The dict a thread holds.
RaceObj(rec) == IF rec.detached THEN reg.old ELSE trackers[rec.d]

\* A thread of the loop or of the event callback writes v into the dict it
\* holds.
StoreObj(rec, v) ==
    /\ trackers' = IF rec.detached THEN trackers ELSE [trackers EXCEPT ![rec.d] = v]
    /\ reg' = IF rec.detached THEN [reg EXCEPT !.old = v] ELSE reg

InitRace ==
    /\ now = HALF_DAY
    /\ devState \in {[g \in Devices |-> IF g = 10 THEN v ELSE "none"] : v \in {"on", "off"}}
    /\ current_date = DateOf(now)
    /\ trackers = MapPut(EmptyMap, RaceTimer, TargetTracker(10, EmptyMap, now))
    /\ by_target = IndexAdd(EmptyMap, 10, RaceTimer)
    /\ states = _update_target_meta_states([d \in Timers |-> EmptyMap], RaceTimer,
                                            10, devState[10])
    /\ captured = [d \in Timers |->
                      IF d = RaceTimer THEN BaselinesOf(trackers[d], now) ELSE ZeroBaselines]
    /\ rolled = [d \in Timers |-> None]
    /\ ticked = FALSE
    /\ nreg = 0
    /\ loop = LoopIdle
    /\ ev = EvIdle
    /\ reg = RegIdle
    /\ calc = CalcIdle
    /\ stopThread = FALSE
    /\ failed = NoFailure
    /\ uninterrupted = NoRollover

\* Lines 343-385: the loop wakes, reads the clock, runs the rollover check and
\* takes list(self.trackers.items()).
LoopBegin ==
    /\ loop.pc = "sleep"
    /\ trackers' = RolledTable(trackers, now)
    /\ rolled' = [d \in Timers |->
                     IF RolloverDue(now) /\ d \in DOMAIN trackers THEN now ELSE rolled[d]]
    /\ current_date' = DateOf(now)
    /\ loop' = IF RaceTimer \in DOMAIN trackers
               THEN [LoopIdle EXCEPT !.pc = "prune", !.now = now, !.d = RaceTimer]
               ELSE LoopIdle
    /\ UNCHANGED <<now, devState, states, by_target, captured, ticked, nreg, ev, reg, calc, passVars>>

\* Lines 390-395: the two prunes, in place.
LoopPrune ==
    /\ loop.pc = "prune"
    /\ LET obj == RaceObj(loop)
       IN  StoreObj(loop, [obj EXCEPT
                              !.intervals = _prune_intervals(obj.intervals, loop.now),
                              !.on_events = _prune_on_events(obj.on_events, loop.now)])
    /\ loop' = [loop EXCEPT !.pc = "test"]
    /\ UNCHANGED <<now, devState, states, current_date, by_target, captured, rolled,
                   ticked, nreg, ev, calc, passVars>>

\* Lines 398-403: the meta refresh, the read of the target's onState and the
\* test for an open last interval.
LoopTest ==
    /\ loop.pc = "test"
    /\ LET obj       == RaceObj(loop)
           target_id == obj.target_id
           append    == CurrentOn(target_id) /\ ~LastOpen(obj.intervals)
       IN  /\ states' = IF DeviceExists(target_id)
                        THEN _update_target_meta_states(states, loop.d, target_id,
                                                        OnStateOf(target_id))
                        ELSE states
           /\ loop' = [loop EXCEPT !.append = append,
                                   !.pc = IF append THEN "append" ELSE "publish"]
    /\ UNCHANGED <<now, devState, current_date, trackers, by_target, captured, rolled,
                   ticked, nreg, ev, reg, calc, passVars>>

\* Line 404: intervals.append((now, None))
LoopAppend ==
    /\ loop.pc = "append"
    /\ LET obj == RaceObj(loop)
       IN  StoreObj(loop, [obj EXCEPT !.intervals = Append(obj.intervals, <<loop.now, None>>)])
    /\ loop' = [loop EXCEPT !.pc = "publish"]
    /\ UNCHANGED <<now, devState, states, current_date, by_target, captured, rolled,
                   ticked, nreg, ev, calc, passVars>>

\* Lines 408-410: the publish, then the sleep.
LoopPublish ==
    /\ loop.pc = "publish"
    /\ states' = _update_timer_states(states, loop.d, RaceObj(loop), loop.now)
    /\ loop' = LoopIdle
    /\ UNCHANGED <<now, devState, current_date, trackers, by_target, captured, rolled,
                   ticked, nreg, ev, reg, calc, passVars>>

\* Lines 284-312: the host changes device g and calls deviceUpdated, which
\* looks the target up, refreshes the meta states, reads the clock and takes
\* list(timer_ids).
EvBegin(g, new_on) ==
    /\ ev.pc = "idle"
    /\ new_on \in OnValues(g)
    /\ LET old_on     == devState[g]
           timer_ids  == MapGet(by_target, g, {})
           transition == IsTransition(old_on, new_on)
       IN  /\ (transition /\ new_on = "on")
                => \A d \in DOMAIN trackers :
                      /\ Len(trackers[d].intervals) < MaxIntervals
                      /\ Len(trackers[d].on_events) < MaxEvents
           /\ devState' = [devState EXCEPT ![g] = new_on]
           /\ states' = [d \in Timers |->
                            IF d \in timer_ids
                            THEN _update_target_meta_states(states, d, g, new_on)[d]
                            ELSE states[d]]
           /\ ev' = IF timer_ids # {} /\ transition
                    THEN [EvIdle EXCEPT !.pc = "get", !.new_on = new_on, !.now = now,
                                        !.ids = timer_ids]
                    ELSE EvIdle
    /\ UNCHANGED <<now, current_date, trackers, by_target, captured, rolled, ticked,
                   nreg, loop, reg, calc, passVars>>

\* Lines 312-315: the next timer id of the list and self.trackers.get of it.
EvGet ==
    /\ ev.pc = "get"
    /\ ev' = IF ev.ids = {} THEN EvIdle
             ELSE LET d == CHOOSE x \in ev.ids : TRUE
                  IN  IF d \in DOMAIN trackers
                      THEN [ev EXCEPT !.pc = "test", !.d = d, !.ids = ev.ids \ {d},
                                      !.detached = FALSE]
                      ELSE [ev EXCEPT !.ids = ev.ids \ {d}]
    /\ UNCHANGED <<now, devState, states, current_date, trackers, by_target, captured,
                   rolled, ticked, nreg, loop, reg, calc, passVars>>

\* Lines 319-320 and 327: the test for an open last interval.
EvTest ==
    /\ ev.pc = "test"
    /\ ev' = [ev EXCEPT !.pc = "apply",
                        !.append = IF ev.new_on = "on"
                                   THEN ~LastOpen(RaceObj(ev).intervals)
                                   ELSE LastOpen(RaceObj(ev).intervals)]
    /\ UNCHANGED <<now, devState, states, current_date, trackers, by_target, captured,
                   rolled, ticked, nreg, loop, reg, calc, passVars>>

\* Lines 321-323 (append the interval, record the on-event) and 328-330 (give
\* the last interval its end).
EvApply ==
    /\ ev.pc = "apply"
    /\ LET obj       == RaceObj(ev)
           intervals == obj.intervals
           last      == Len(intervals)
       IN  StoreObj(ev,
               IF ev.new_on = "on"
               THEN [obj EXCEPT
                        !.intervals = IF ev.append
                                      THEN Append(intervals, <<ev.now, None>>)
                                      ELSE intervals,
                        !.on_events = RecordEvent(obj.on_events, ev.now)]
               ELSE [obj EXCEPT
                        !.intervals = IF ev.append /\ last > 0
                                      THEN [intervals EXCEPT ![last] = <<intervals[last][1], ev.now>>]
                                      ELSE intervals])
    /\ ev' = [ev EXCEPT !.pc = "publish"]
    /\ UNCHANGED <<now, devState, states, current_date, by_target, captured, rolled,
                   ticked, nreg, loop, calc, passVars>>

\* Lines 332-334: the publish for the timer.
EvPublish ==
    /\ ev.pc = "publish"
    /\ states' = _update_timer_states(states, ev.d, RaceObj(ev), ev.now)
    /\ ev' = [ev EXCEPT !.pc = "get"]
    /\ UNCHANGED <<now, devState, current_date, trackers, by_target, captured, rolled,
                   ticked, nreg, loop, reg, calc, passVars>>

\* A thread that holds the dict of the table now holds a popped dict.
Detached(rec, holding) ==
    IF rec.pc \in holding THEN [rec EXCEPT !.detached = TRUE] ELSE rec

\* Lines 419 and 521-528: deviceStartComm calls _register_tracker for timer
\* 1, whose targetDeviceId is target_str; _unregister_tracker pops the tracker
\* and discards the timer from the index.
RegBegin(target_str) ==
    /\ reg.pc = "idle"
    /\ nreg < MaxRegisters
    /\ nreg' = nreg + 1
    /\ trackers' = MapDel(trackers, RaceTimer)
    /\ by_target' = UnregisteredIndex(trackers, by_target, RaceTimer)
    /\ reg' = [pc |-> "store", target_str |-> target_str,
               old |-> IF RaceTimer \in DOMAIN trackers THEN trackers[RaceTimer] ELSE reg.old]
    /\ loop' = Detached(loop, {"prune", "test", "append", "publish"})
    /\ ev' = Detached(ev, {"test", "apply", "publish"})
    /\ UNCHANGED <<now, devState, states, current_date, captured, rolled, ticked, calc, passVars>>

\* Lines 421-516: the new tracker is built from the sink and the target and
\* stored in the table.
RegStore ==
    /\ reg.pc = "store"
    /\ LET tracker == NewTracker(reg.target_str, states[RaceTimer], now)
       IN  /\ trackers' = MapPut(trackers, RaceTimer, tracker)
           /\ captured' = [captured EXCEPT ![RaceTimer] = BaselinesOf(tracker, now)]
    /\ rolled' = [rolled EXCEPT ![RaceTimer] = None]
    /\ reg' = [reg EXCEPT !.pc = "index"]
    /\ UNCHANGED <<now, devState, states, current_date, by_target, ticked, nreg,
                   loop, ev, calc, passVars>>

\* Line 517: the timer joins the index of its target.
RegIndex ==
    /\ reg.pc = "index"
    /\ by_target' = IndexAdd(by_target, IntOf(reg.target_str), RaceTimer)
    /\ reg' = [reg EXCEPT !.pc = "meta"]
    /\ UNCHANGED <<now, devState, states, current_date, trackers, captured, rolled,
                   ticked, nreg, loop, ev, calc, passVars>>

\* Line 519: the meta states of the new target are published.
RegMeta ==
    /\ reg.pc = "meta"
    /\ states' = _update_target_meta_states(states, RaceTimer, RegisteredMeta(reg.target_str),
                                             OnStateOf(RegisteredMeta(reg.target_str)))
    /\ reg' = [reg EXCEPT !.pc = "idle"]
    /\ UNCHANGED <<now, devState, current_date, trackers, by_target, captured, rolled,
                   ticked, nreg, loop, ev, calc, passVars>>

NextRace ==
    \/ LoopBegin
    \/ LoopPrune
    \/ LoopTest
    \/ LoopAppend
    \/ LoopPublish
    \/ \E g \in Devices, new_on \in {"on", "off", "none"} : EvBegin(g, new_on)
    \/ EvGet
    \/ EvTest
    \/ EvApply
    \/ EvPublish
    \/ \E target_str \in RaceConfigValues : RegBegin(target_str)
    \/ RegStore
    \/ RegIndex
    \/ RegMeta

SpecRace == InitRace /\ [][NextRace]_vars

\* C2: under every interleaving of the loop's test-then-append with the event
\* callback's test-then-append or test-then-close on the same tracker, the
\* tracker never holds two open intervals.
C2_NeverTwoOpenIntervals ==
    \A d \in DOMAIN trackers :
        Cardinality({i \in 1..Len(trackers[d].intervals) :
                        IsOpen(trackers[d].intervals[i])}) <= 1

\* C10: while the registration has stored the new tracker and not yet added
\* it to the target index, no step of the event callback changes the tracker
\* table.
C10_EventNeverMutatesHalfInitialized ==
    [][(reg.pc = "index" /\ ev' # ev) => trackers' = trackers]_vars

----------------------------------------------------------------------------
(* The aggregator and the store applied to arbitrary interval lists (SpecPure):
   closed intervals in any order, then at most one open interval, with
   endpoints around the retention horizon, the 24 hour window and now. *)

PureNows == {RETENTION_SECONDS + REFRESH_INTERVAL_SECS, RETENTION_SECONDS + DAY}

PurePoints(t) ==
    {t - RETENTION_SECONDS - REFRESH_INTERVAL_SECS, t - RETENTION_SECONDS,
     t - RETENTION_SECONDS + REFRESH_INTERVAL_SECS, t - DAY,
     t - REFRESH_INTERVAL_SECS, t}

PureClosed(t) == {iv \in PurePoints(t) \X PurePoints(t) : iv[1] < iv[2]}

PureLists(t) ==
    {closed \o open :
        closed \in UNION {[1..n -> PureClosed(t)] : n \in 0..MaxPureLen},
        open \in {<<>>} \cup {<< <<s, None>> >> : s \in PurePoints(t)}}

PureDurations == {WINDOWS[i].secs : i \in 1..Len(WINDOWS)} \cup {REFRESH_INTERVAL_SECS}

CalcInput(intervals) ==
    [op |-> "input", intervals |-> intervals, before |-> <<>>,
     window_seconds |-> 0, total |-> 0, between |-> 0]

InitPure ==
    /\ now \in PureNows
    /\ calc \in {CalcInput(intervals) : intervals \in PureLists(now)}
    /\ devState = [g \in Devices |-> IF g = 10 THEN "off" ELSE "none"]
    /\ states = [d \in Timers |-> EmptyMap]
    /\ current_date = DateOf(now)
    /\ trackers = EmptyMap
    /\ by_target = EmptyMap
    /\ captured = [d \in Timers |-> ZeroBaselines]
    /\ rolled = [d \in Timers |-> None]
    /\ ticked = FALSE
    /\ nreg = 0
    /\ loop = LoopIdle
    /\ ev = EvIdle
    /\ reg = RegIdle
    /\ stopThread = FALSE
    /\ failed = NoFailure
    /\ uninterrupted = NoRollover

\* _compute_on_seconds(intervals, now, window_seconds) beside
\* _compute_on_seconds_between(intervals, now - window_seconds, now)
ComputeWindow(window_seconds) ==
    /\ calc.op = "input"
    /\ calc' = [calc EXCEPT
                  !.op = "window",
                  !.window_seconds = window_seconds,
                  !.total = _compute_on_seconds(calc.intervals, now, window_seconds),
                  !.between = _compute_on_seconds_between(calc.intervals,
                                                          now - window_seconds, now)]
    /\ UNCHANGED <<now, devState, states, current_date, trackers, by_target,
                   captured, rolled, ticked, nreg, loop, ev, reg, passVars>>

\* _prune_intervals(intervals, now)
PruneIntervals ==
    /\ calc.op = "input"
    /\ calc' = [calc EXCEPT
                  !.op = "pruned",
                  !.before = calc.intervals,
                  !.intervals = _prune_intervals(calc.intervals, now)]
    /\ UNCHANGED <<now, devState, states, current_date, trackers, by_target,
                   captured, rolled, ticked, nreg, loop, ev, reg, passVars>>

NextPure ==
    \/ \E window_seconds \in PureDurations : ComputeWindow(window_seconds)
    \/ PruneIntervals

SpecPure == InitPure /\ [][NextPure]_vars

\* a is b with some elements left out, the rest in the order of b
RECURSIVE IsSubSeq(_, _)
IsSubSeq(a, b) ==
    IF a = <<>> THEN TRUE
    ELSE IF b = <<>> THEN FALSE
    ELSE IF Head(a) = Head(b) /\ IsSubSeq(Tail(a), Tail(b)) THEN TRUE
    ELSE IsSubSeq(a, Tail(b))

\* C8: for every interval list, every now and every duration, the sliding
\* window sum equals the range sum over [now - duration, now].
C8_WindowEqualsRange ==
    calc.op = "window" => calc.total = calc.between

\* C8 witness: a list ending in an open interval, summed over a window that
\* starts after the first interval does.
C8_Witness ==
    /\ calc.op = "window"
    /\ LastOpen(calc.intervals)
    /\ Len(calc.intervals) = 2
    /\ calc.intervals[1][1] < now - calc.window_seconds
    /\ calc.intervals[1][2] > now - calc.window_seconds
    /\ calc.total > 0
    /\ calc.total = calc.between

\* C9: pruning at now changes no catalogue window's sum at now, keeps the
\* surviving intervals in their order, and keeps the open interval.
C9_PrunePreservesWindows ==
    calc.op = "pruned"
    => /\ \A i \in 1..Len(WINDOWS) :
              _compute_on_seconds(calc.intervals, now, WINDOWS[i].secs)
              = _compute_on_seconds(calc.before, now, WINDOWS[i].secs)
       /\ IsSubSeq(calc.intervals, calc.before)
       /\ LastOpen(calc.before)
            => /\ LastOpen(calc.intervals)
               /\ calc.intervals[Len(calc.intervals)] = calc.before[Len(calc.before)]

\* C9 witness: pruning dropped an interval that ended at the horizon and kept
\* a closed interval and the open one, which carry on-time in the longest
\* window.
C9_Witness ==
    /\ calc.op = "pruned"
    /\ Len(calc.before) = 3
    /\ Len(calc.intervals) = 2
    /\ calc.before[1][2] = now - RETENTION_SECONDS
    /\ LastOpen(calc.intervals)
    /\ _compute_on_seconds(calc.intervals, now, RETENTION_SECONDS) > 0

----------------------------------------------------------------------------
(* Properties of the serialized plugin (Spec) *)

\* The interval list of timer d holds exactly one interval, open, that
\* started at or before the midnight before the date of the clock.
OnSinceYesterday(d) ==
    /\ Len(trackers[d].intervals) = 1
    /\ IsOpen(trackers[d].intervals[1])
    /\ trackers[d].intervals[1][1] <= YdayStart(now)

\* The number of on-events the tracker of d holds for the calendar date.
EventsOnDate(d, date) ==
    Cardinality({i \in 1..Len(trackers[d].on_events) :
                    DateOf(trackers[d].on_events[i]) = date})

\* Every on-event of d was recorded at an earlier clock value than now.
EventsEarlier(d) ==
    \A i \in 1..Len(trackers[d].on_events) : trackers[d].on_events[i] < now

\* The tracker of d was rolled over on the date of the clock.
RolledToday(d) == rolled[d] # None /\ DateOf(rolled[d]) = DateOf(now)

\* The keys whose values registration captures as baselines.
CapturedValue(d, k) ==
    IF k \in WindowIds THEN MapGet(captured[d].offsets, k, 0)
    ELSE IF k = "timeon_today" THEN captured[d].day_offsets.today
    ELSE IF k = "timeon_yesterday" THEN captured[d].day_offsets.yesterday
    ELSE IF k = "oncount_today" THEN captured[d].count_offsets.today
    ELSE captured[d].count_offsets.yesterday

CapturedKeys ==
    WindowIds \cup {"timeon_today", "timeon_yesterday", "oncount_today", "oncount_yesterday"}

\* Nothing was observed by the tracker of d, which has a valid target.
NothingObserved(d) ==
    /\ trackers[d].target_id # None
    /\ trackers[d].intervals = <<>>
    /\ trackers[d].on_events = <<>>

SinkHoldsCaptured(d) ==
    \A k \in CapturedKeys : MapGet(states[d], k, 0) = CapturedValue(d, k)

\* C1: after any sequence of register, event, tick and unregister steps taken
\* one at a time, every tracker's interval list holds at most one open
\* interval, and an open interval is the last element of the list.
C1_OneOpenIntervalLast ==
    \A d \in DOMAIN trackers :
        \A i \in 1..Len(trackers[d].intervals) :
            IsOpen(trackers[d].intervals[i]) => i = Len(trackers[d].intervals)

\* C1 witness: a pass of the loop has just opened an interval (the target is
\* on, the event was missed) behind a closed one.
C1_Witness ==
    \E d \in DOMAIN trackers :
        /\ ticked
        /\ Len(trackers[d].intervals) = 2
        /\ ~IsOpen(trackers[d].intervals[1])
        /\ trackers[d].intervals[2] = <<now, None>>
        /\ trackers[d].on_events = <<>>

\* C3: a tracker registered with all baselines zero whose only interval has
\* been open since yesterday's midnight or earlier: after a pass of the loop
\* on this date the published timeon_yesterday is the whole day (1440.0 min)
\* and the published timeon_today is the time elapsed since midnight.
C3_OnAcrossMidnight ==
    \A d \in DOMAIN trackers :
        (/\ ticked
         /\ \A k \in CapturedKeys : CapturedValue(d, k) = 0
         /\ OnSinceYesterday(d))
        => /\ states[d]["timeon_yesterday"] = 14400
           /\ states[d]["timeon_today"] = RoundMinutes(now - TodayStart(now))

\* C3 witness: the pass after the rollover pass, 15 s into the new date,
\* publishes 1440.0 min for yesterday and 0.2 min for today.
C3_Witness ==
    \E d \in DOMAIN trackers :
        /\ ticked
        /\ \A k \in CapturedKeys : CapturedValue(d, k) = 0
        /\ OnSinceYesterday(d)
        /\ rolled[d] = TodayStart(now)
        /\ now = TodayStart(now) + REFRESH_INTERVAL_SECS
        /\ states[d]["timeon_yesterday"] = 14400
        /\ states[d]["timeon_today"] = 2

\* C4: after a pass of the loop later than every recorded on-event, a tracker
\* whose oncount_today baseline is zero has published as oncount_today the
\* number of on-events of the date of the clock; and a tracker registered with
\* a zero oncount_today baseline that has been rolled over on this date has
\* published as oncount_yesterday the number of on-events of the date before.
C4_CountsFollowTheDate ==
    \A d \in DOMAIN trackers :
        (ticked /\ EventsEarlier(d))
        => /\ trackers[d].count_offsets.today = 0
                => states[d]["oncount_today"] = EventsOnDate(d, DateOf(now))
           /\ (captured[d].count_offsets.today = 0 /\ RolledToday(d))
                => states[d]["oncount_yesterday"] = EventsOnDate(d, DateOf(now) - 1)

\* C4 witness: two on-events on one date, and the rollover pass of the next
\* date has published oncount_yesterday = 2 and oncount_today = 0.
C4_Witness ==
    \E d \in DOMAIN trackers :
        /\ ticked
        /\ captured[d].count_offsets.today = 0
        /\ rolled[d] = now
        /\ EventsOnDate(d, DateOf(now) - 1) = 2
        /\ states[d]["oncount_yesterday"] = 2
        /\ states[d]["oncount_today"] = 0

\* C5: the publish of the event callback counts the on-event it has just
\* recorded: after a step that records an on-event for d, the published
\* oncount_today is the baseline plus the on-events of today, the new one
\* included.
C5_EventPublishCountsTransition ==
    [][\A d \in DOMAIN trackers \cap DOMAIN trackers' :
          Len(trackers'[d].on_events) = Len(trackers[d].on_events) + 1
          => states'[d]["oncount_today"] =
                trackers'[d].count_offsets.today
                + Cardinality({i \in 1..Len(trackers'[d].on_events) :
                                  DateOf(trackers'[d].on_events[i]) = DateOf(now)})]_vars

\* C6 as stated: a tracker with a valid target that has observed nothing, on
\* the calendar date of its registration, has in the sink the values its
\* registration captured.
C6_SameDateWritesBackCaptured ==
    \A d \in DOMAIN trackers :
        (NothingObserved(d) /\ captured[d].date = DateOf(now))
        => SinkHoldsCaptured(d)

\* C6 amended: a tracker with a valid target that has observed nothing and
\* has not been rolled over since its registration has in the sink the
\* values its registration captured.
C6_NoRolloverWritesBackCaptured ==
    \A d \in DOMAIN trackers :
        (NothingObserved(d) /\ rolled[d] = None)
        => SinkHoldsCaptured(d)

\* C6 witness: a captured timeon_24hours of 30.0 min, published again by a
\* pass of the loop.
C6_Witness ==
    \E d \in DOMAIN trackers :
        /\ ticked
        /\ NothingObserved(d)
        /\ rolled[d] = None
        /\ captured[d].offsets["timeon_24hours"] = 300
        /\ states[d]["timeon_24hours"] = 300
        /\ states[d]["timeoff_today"] = RoundMinutes(now - TodayStart(now)) - 300

\* C7: a pass of the loop on the date the loop has already rolled over to
\* leaves the day_offsets and count_offsets of every tracker unchanged.
C7_RolloverOncePerDate ==
    [][(ticked' /\ current_date = DateOf(now))
       => \A d \in DOMAIN trackers :
             /\ trackers'[d].day_offsets = trackers[d].day_offsets
             /\ trackers'[d].count_offsets = trackers[d].count_offsets]_vars

\* C7 witness: a tracker rolled over at midnight, and a later pass of the
\* loop on the same date.
C7_Witness ==
    \E d \in DOMAIN trackers :
        /\ ticked
        /\ rolled[d] # None
        /\ rolled[d] < now
        /\ DateOf(rolled[d]) = DateOf(now)
        /\ trackers[d].day_offsets.yesterday > 0

\* The tracker of d has no target, is in no entry of the index, holds no
\* interval and no on-event, and what a pass of the loop has published for it
\* is 0 for every rolling window, both day totals and both counts.
InertAndZero(d) ==
    /\ trackers[d].target_id = None
    /\ \A g \in DOMAIN by_target : d \notin by_target[g]
    /\ trackers[d].intervals = <<>>
    /\ trackers[d].on_events = <<>>
    /\ ticked => \A k \in CapturedKeys : states[d][k] = 0

\* Timer d is registered and its registration found no numeric target id.
RegisteredInert(d) ==
    d \in DOMAIN trackers /\ captured[d].config \in {"", "abc"}

\* C14: a registration with an empty or non-numeric targetDeviceId stores a
\* tracker, and from then on, through every device change, clock step and
\* pass of the loop, that tracker is inert and published as zero.
C14_InertTrackerStaysZero ==
    [][/\ \A d \in Timers, target_str \in {"", "abc"} :
             RegisterTimer(d, target_str) => d \in DOMAIN trackers'
       /\ \A d \in Timers : RegisteredInert(d)' => InertAndZero(d)']_vars

\* C14 witness: a timer was
\* registered without a numeric target id at noon, and with device 10 on the
\* loop has rolled the tracker over at midnight and published zeros for it.
C14_Witness ==
    \E d \in DOMAIN trackers :
        /\ RegisteredInert(d)
        /\ ticked
        /\ captured[d].date = 0
        /\ rolled[d] = DAY
        /\ devState[10] = "on"
        /\ states[d]["timeon_24hours"] = 0
        /\ states[d]["timeoff_yesterday"] = 14400

----------------------------------------------------------------------------
(* The periodic loop step by step (SpecLoop).
   One pass of runConcurrentThread is taken tracker by tracker: the rollover
   of each tracker, which an exception can cut short (the try of lines
   346-383 logs it and the pass goes on with the sweep), then the sweep of
   each tracker, whose write to the state sink can raise (the try of lines
   670-678 logs it), then the sleep, which raises StopThread once the host
   has signalled the shutdown.  Both timers start registered on device 10.
   The clock moves and device changes arrive while the loop is asleep or
   gone. *)

\* list(self.trackers.items()): the timer ids in the order of registration,
\* which startup makes the order of the ids.
RECURSIVE TrackerItems(_)
TrackerItems(ids) ==
    IF ids = {} THEN <<>>
    ELSE LET first == CHOOSE x \in ids : \A y \in ids : x <= y
         IN  <<first>> \o TrackerItems(ids \ {first})

\* The loop asleep between two passes.
PassIdle == [pc |-> "sleep", now |-> None, items |-> <<>>]

\* What a registration over the sink sink_d leaves in the sink.
RegisteredSink(sink_d, target_id) ==
    MapUpdate(sink_d, TargetMeta(target_id, OnStateOf(target_id)))

InitLoop ==
    /\ now = HALF_DAY
    /\ devState \in {[g \in Devices |-> IF g = 10 THEN v ELSE "none"] : v \in {"on", "off"}}
    /\ current_date = DateOf(now)
    /\ \E sink \in {EmptyMap, PreviousSink} :
          /\ trackers = [d \in Timers |-> TargetTracker(10, sink, now)]
          /\ states = [d \in Timers |-> RegisteredSink(sink, 10)]
    /\ by_target = MapPut(EmptyMap, 10, Timers)
    /\ captured = [d \in Timers |-> BaselinesOf(trackers[d], now)]
    /\ rolled = [d \in Timers |-> None]
    /\ ticked = FALSE
    /\ nreg = 0
    /\ loop = PassIdle
    /\ ev = EvIdle
    /\ reg = RegIdle
    /\ calc = CalcIdle
    /\ stopThread = FALSE
    /\ failed = NoFailure
    /\ uninterrupted = NoRollover

\* History: the offsets the rollover to the date of t leaves in a tracker
\* when nothing cuts it short.
Planned(tracker, t) ==
    [date          |-> DateOf(t),
     day_offsets   |-> Rollover(tracker, t).day_offsets,
     count_offsets |-> Rollover(tracker, t).count_offsets]

\* Fault: a sleep that ignores the shutdown signal.
SleepNeverRaises(stop) == FALSE

\* Line 410: self.sleep(REFRESH_INTERVAL_SECS) raises StopThread when the
\* host has signalled the shutdown, and returns otherwise.
SleepRaises(stop) == stop

\* Lines 343-352: the sleep has returned; the loop reads the clock and
\* compares its date with the remembered date.
PassBegin ==
    /\ loop.pc = "sleep"
    /\ ~SleepRaises(stopThread)
    /\ WithinBounds(SweptTable(trackers, now))
    /\ loop' = [pc    |-> IF RolloverDue(now) THEN "rollover" ELSE "sweep",
                now   |-> now,
                items |-> TrackerItems(DOMAIN trackers)]
    /\ current_date' = IF current_date = None THEN DateOf(now) ELSE current_date
    /\ uninterrupted' =
          [d \in Timers |->
              IF RolloverDue(now) /\ d \in DOMAIN trackers
                 /\ uninterrupted[d].date # DateOf(now)
              THEN Planned(trackers[d], now)
              ELSE uninterrupted[d]]
    /\ ticked' = FALSE
    /\ UNCHANGED <<now, devState, states, trackers, by_target, captured, rolled,
                   nreg, ev, reg, calc, stopThread, failed>>

\* Lines 353-380 for the next tracker of the list.
RollOne ==
    /\ loop.pc = "rollover"
    /\ loop.items # <<>>
    /\ LET d == Head(loop.items)
       IN  /\ trackers' = [trackers EXCEPT ![d] = Rollover(trackers[d], loop.now)]
           /\ rolled' = [rolled EXCEPT ![d] = loop.now]
    /\ loop' = [loop EXCEPT !.items = Tail(loop.items)]
    /\ UNCHANGED <<now, devState, states, current_date, by_target, captured, ticked,
                   nreg, ev, reg, calc, passVars>>

\* Lines 353-374 raise for the next tracker of the list (the host's device
\* lookup, the device's name); lines 382-383 log the exception and the pass
\* goes on at line 385 with the remembered date as it was.
RollRaise ==
    /\ loop.pc = "rollover"
    /\ loop.items # <<>>
    /\ loop' = [loop EXCEPT !.pc = "sweep", !.items = TrackerItems(DOMAIN trackers)]
    /\ UNCHANGED <<now, devState, states, current_date, trackers, by_target, captured,
                   rolled, ticked, nreg, ev, reg, calc, passVars>>

\* Line 381, after the last tracker: the remembered date becomes now's date.
RollDone ==
    /\ loop.pc = "rollover"
    /\ loop.items = <<>>
    /\ current_date' = DateOf(loop.now)
    /\ loop' = [loop EXCEPT !.pc = "sweep", !.items = TrackerItems(DOMAIN trackers)]
    /\ UNCHANGED <<now, devState, states, trackers, by_target, captured, rolled,
                   ticked, nreg, ev, reg, calc, passVars>>

\* Lines 397-408 and 670-678: the sink after the sweep of one tracker, whose
\* updateStatesOnServer(kv_list) of line 671 raises or not.
PublishedSink(sink, d, tracker, t, raises) ==
    IF raises
    THEN IF DeviceExists(tracker.target_id)
         THEN _update_target_meta_states(sink, d, tracker.target_id,
                                         OnStateOf(tracker.target_id))
         ELSE sink
    ELSE SweepPublish(sink, d, tracker, t)

\* Fault: a publish failure that ends the sweep.
AbortOnFailure(items, raises) == IF raises THEN <<>> ELSE Tail(items)

\* Lines 677-678: the exception is logged and the for loop of line 385 goes
\* on with the next tracker.
AfterPublish(items, raises) == Tail(items)

\* History of the publishes of one timer: "never" raised, "raised" at its
\* last publish, "retried" with success after a publish that raised.
PublishOutcome(previous, raises) ==
    IF raises THEN "raised"
    ELSE IF previous = "raised" THEN "retried" ELSE previous

\* Lines 385-408 for the next tracker of the list.
SweepOne(raises) ==
    /\ loop.pc = "sweep"
    /\ loop.items # <<>>
    /\ raises => Cardinality({x \in Timers : failed[x] # "never"}) < MaxFailures
    /\ LET d       == Head(loop.items)
           tracker == SweepTracker(trackers[d], loop.now)
       IN  /\ trackers' = [trackers EXCEPT ![d] = tracker]
           /\ states' = PublishedSink(states, d, tracker, loop.now, raises)
           /\ failed' = [failed EXCEPT ![d] = PublishOutcome(failed[d], raises)]
    /\ loop' = [loop EXCEPT !.items = AfterPublish(loop.items, raises)]
    /\ UNCHANGED <<now, devState, current_date, by_target, captured, rolled, ticked,
                   nreg, ev, reg, calc, stopThread, uninterrupted>>

\* Line 410: the list is done and the loop goes to sleep.
SweepDone ==
    /\ loop.pc = "sweep"
    /\ loop.items = <<>>
    /\ loop' = PassIdle
    /\ ticked' = TRUE
    /\ UNCHANGED <<now, devState, states, current_date, trackers, by_target, captured,
                   rolled, nreg, ev, reg, calc, passVars>>

\* The host signals the shutdown of the plugin.
StopSignal ==
    /\ ~stopThread
    /\ stopThread' = TRUE
    /\ UNCHANGED <<now, devState, states, current_date, trackers, by_target, captured,
                   rolled, ticked, nreg, loop, ev, reg, calc, failed, uninterrupted>>

\* Lines 410-412: self.sleep raises StopThread, which ends the while loop
\* and runConcurrentThread.
PassExit ==
    /\ loop.pc = "sleep"
    /\ SleepRaises(stopThread)
    /\ loop' = [PassIdle EXCEPT !.pc = "exited"]
    /\ UNCHANGED <<now, devState, states, current_date, trackers, by_target, captured,
                   rolled, ticked, nreg, ev, reg, calc, passVars>>

\* The clock values after noon of day 0: the first midnight and one refresh
\* interval after it.
LoopClock == {DAY, DAY + REFRESH_INTERVAL_SECS}

\* The loop is between two passes or has ended.
LoopAway == loop.pc \in {"sleep", "exited"}

\* A pass of the loop, step by step.
PassStep ==
    \/ PassBegin
    \/ RollOne
    \/ RollRaise
    \/ RollDone
    \/ \E raises \in BOOLEAN : SweepOne(raises)
    \/ SweepDone

NextLoop ==
    \/ PassStep
    \/ \E t \in LoopClock : LoopAway /\ Advance(t)
    \/ \E g \in Devices, new_on \in {"on", "off", "none"} :
          LoopAway /\ DeviceUpdated(g, new_on)
    \/ \E g \in Devices, new_on \in {"on", "off"} : LoopAway /\ Missed(g, new_on)

SpecLoop == InitLoop /\ [][NextLoop]_vars

----------------------------------------------------------------------------
(* The loop and the shutdown signal (SpecStop): the passes of SpecLoop, the
   host's signal at any moment, the end of the loop, and the device changes
   the host delivers after it.  The loop's thread keeps running: a step of
   the loop that stays possible is taken. *)

\* The steps of the loop's thread, the sink taking every publish.
LoopStep ==
    \/ PassBegin
    \/ RollOne
    \/ RollRaise
    \/ RollDone
    \/ SweepOne(FALSE)
    \/ SweepDone
    \/ PassExit

NextStop ==
    \/ LoopStep
    \/ StopSignal
    \/ \E t \in LoopClock : LoopAway /\ Advance(t)
    \/ \E g \in Devices, new_on \in {"on", "off", "none"} :
          loop.pc = "exited" /\ DeviceUpdated(g, new_on)

SpecStop == InitLoop /\ [][NextStop]_vars /\ WF_vars(LoopStep)

\* C15: once the host has signalled the shutdown the loop ends, from its
\* sleep; and once it has ended, the remembered date, the rollovers and the
\* loop's publishes stay as they are, and trackers and sink change only with
\* a device change the host delivers.
C15_ShutdownEndsTheLoop ==
    /\ stopThread ~> loop.pc = "exited"
    /\ [][loop.pc = "exited"
            => /\ loop' = loop
               /\ current_date' = current_date
               /\ rolled' = rolled
               /\ failed' = failed
               /\ (trackers' # trackers \/ states' # states) => devState' # devState]_vars
    /\ [][loop'.pc = "exited" => (loop.pc \in {"sleep", "exited"} /\ stopThread)]_vars

\* C15 witness: the shutdown was signalled during the sweep of the midnight
\* pass, the pass was finished, the loop has ended, and a device change
\* delivered afterwards has been recorded.
C15_Witness ==
    /\ loop.pc = "exited"
    /\ stopThread
    /\ ticked = FALSE
    /\ rolled[1] = DAY
    /\ now = DAY + REFRESH_INTERVAL_SECS
    /\ Len(trackers[1].on_events) = 1
    /\ trackers[1].on_events[1] = now

\* The sink holds for timer d what _update_timer_states publishes for its
\* tracker at the clock value t.
SinkIsFresh(d, t) ==
    \A k \in MetricKeys : MapGet(states[d], k, None) = TimerStates(trackers[d], t)[k]

\* The tracker of d is as the sweep at t leaves a tracker: pruned, and with
\* an open interval when its target is on.
IsSwept(d, t) ==
    /\ \A i \in 1..Len(trackers[d].intervals) : KeepInterval(trackers[d].intervals[i], t)
    /\ \A i \in 1..Len(trackers[d].on_events) : KeepEvent(trackers[d].on_events[i], t)
    /\ CurrentOn(trackers[d].target_id) => LastOpen(trackers[d].intervals)

\* A pass of the loop has ended: every tracker is swept, and every tracker
\* whose publish did not raise is published.
PassComplete ==
    ticked => \A d \in DOMAIN trackers :
                 /\ IsSwept(d, now)
                 /\ failed[d] # "raised" => SinkIsFresh(d, now)

\* C13: a sweep step whose publish raises leaves the tracker as the sweep made
\* it (pruned intervals and events, a synthesized interval, the offsets as
\* they were) and goes on with the rest of the list; at the end of the pass
\* every tracker is swept and every other tracker is published; and the loop
\* is asleep again, from where the next pass publishes anew.
C13_PublishFailureSwallowed ==
    [][/\ SweepOne(TRUE)
          => LET d == Head(loop.items)
             IN  /\ trackers'[d].intervals =
                       Synthesize(_prune_intervals(trackers[d].intervals, loop.now),
                                  trackers[d].target_id, loop.now)
                 /\ trackers'[d].on_events = _prune_on_events(trackers[d].on_events, loop.now)
                 /\ trackers'[d].offsets = trackers[d].offsets
                 /\ trackers'[d].day_offsets = trackers[d].day_offsets
                 /\ trackers'[d].count_offsets = trackers[d].count_offsets
                 /\ loop'.pc = "sweep"
                 /\ loop'.items = Tail(loop.items)
       /\ PassComplete'
       /\ (~ticked /\ ticked') => loop'.pc = "sleep"]_vars

\* C13 witness: the pass at midnight is over; the publish of timer 1 raised
\* after the sweep had opened an interval for it (a missed turn-on), its
\* sink is stale, and timer 2 is published.
C13_Witness ==
    /\ ticked
    /\ now = DAY
    /\ failed[1] = "raised"
    /\ trackers[1].intervals = << <<DAY, None>> >>
    /\ trackers[1].on_events = <<>>
    /\ ~SinkIsFresh(1, now)
    /\ SinkIsFresh(2, now)

\* C16: a pass that finds now's date different from the remembered date
\* runs the rollover, and no other pass does; the rollover of a tracker sets
\* its yesterday offsets to the on-time and the on-events of
\* [yesterday_start, today_start) plus the today offsets it had, its today
\* offsets to 0 and its lock to now's date, and leaves its intervals, its
\* on_events, its rolling offsets and the remembered date alone; the
\* remembered date advances after the last tracker, all of them locked.
C16_RolloverMovesTodayToYesterday ==
    [][/\ (loop.pc = "sleep" /\ loop'.pc \in {"rollover", "sweep"})
            => (loop'.pc = "rollover" <=> DateOf(now) # current_date)
       /\ (loop.pc = "rollover" /\ loop.items # <<>> /\ loop'.pc = "rollover")
            => LET d    == Head(loop.items)
                   old  == trackers[d]
                   new  == trackers'[d]
                   yday_start  == YdayStart(loop.now)
                   today_start == TodayStart(loop.now)
               IN  /\ new.day_offsets.yesterday =
                         RoundMinutes(_compute_on_seconds_between(
                                          old.intervals, yday_start, today_start))
                         + old.day_offsets.today
                   /\ new.count_offsets.yesterday =
                         CountEvents(old.on_events, yday_start, today_start)
                         + old.count_offsets.today
                   /\ new.day_offsets.today = 0
                   /\ new.count_offsets.today = 0
                   /\ new.yesterday_locked_for_date = DateOf(loop.now)
                   /\ new.intervals = old.intervals
                   /\ new.on_events = old.on_events
                   /\ new.offsets = old.offsets
                   /\ current_date' = current_date
                   /\ current_date # DateOf(loop.now)
       /\ (loop.pc = "rollover" /\ loop.items = <<>>)
            => /\ current_date' = DateOf(loop.now)
               /\ trackers' = trackers
               /\ \A d \in DOMAIN trackers :
                     trackers[d].yesterday_locked_for_date = DateOf(loop.now)]_vars

\* C16 witness: the rollover of the midnight pass is done; timer 1, whose
\* interval and on-event date from noon and whose today baselines were 30.0
\* min and 2, has yesterday offsets of 750.0 min and 3.
C16_Witness ==
    /\ loop.pc = "sweep"
    /\ loop.now = DAY
    /\ current_date = 1
    /\ rolled[1] = DAY
    /\ trackers[1].intervals = << <<HALF_DAY, None>> >>
    /\ trackers[1].on_events = <<HALF_DAY>>
    /\ captured[1].day_offsets.today = 300
    /\ captured[1].count_offsets.today = 2
    /\ trackers[1].day_offsets = [today |-> 0, yesterday |-> 7500]
    /\ trackers[1].count_offsets = [today |-> 0, yesterday |-> 3]

\* C17: an exception that interrupts the rollover sends the pass on to the
\* sweep of every tracker with the remembered date as it was, the next pass
\* enters the rollover again, and once the remembered date has reached the
\* date of the transition every tracker's day_offsets and count_offsets are
\* those a single uninterrupted rollover of that transition leaves.
C17_InterruptedRolloverRollsOnce ==
    [][/\ (loop.pc = "rollover" /\ loop.items # <<>> /\ loop'.pc = "sweep")
            => /\ loop'.items = TrackerItems(DOMAIN trackers)
               /\ current_date' = current_date
               /\ current_date' # DateOf(loop.now)
       /\ (loop.pc = "sleep" /\ loop'.pc = "sweep") => current_date' = DateOf(now)
       /\ \A d \in DOMAIN trackers' :
             current_date' = uninterrupted'[d].date
                => /\ trackers'[d].day_offsets = uninterrupted'[d].day_offsets
                   /\ trackers'[d].count_offsets = uninterrupted'[d].count_offsets]_vars

\* The yesterday values in sink are those of the claim for tracker at t:
\* the offsets alone under the lock, the sum within
\* [yesterday_start, today_start) plus the offset otherwise.
YesterdayAsClaimed(sink, tracker, t) ==
    LET yday_start  == YdayStart(t)
        today_start == TodayStart(t)
        minutes == RoundMinutes(_compute_on_seconds_between(
                                    tracker.intervals, yday_start, today_start))
        count   == CountEvents(tracker.on_events, yday_start, today_start)
    IN  IF tracker.yesterday_locked_for_date = DateOf(t)
        THEN /\ MapGet(sink, "timeon_yesterday", None) = tracker.day_offsets.yesterday
             /\ MapGet(sink, "oncount_yesterday", None) = tracker.count_offsets.yesterday
        ELSE /\ MapGet(sink, "timeon_yesterday", None)
                    = minutes + tracker.day_offsets.yesterday
             /\ MapGet(sink, "oncount_yesterday", None)
                    = count + tracker.count_offsets.yesterday

\* C18: every publish of a tracker, by the sweep or by deviceUpdated, writes
\* as timeon_yesterday and oncount_yesterday the tracker's yesterday offsets
\* exactly when the tracker's lock date is the date of now, and the sum of
\* the intervals and events of yesterday plus the offsets when it is not.
C18_LockedYesterdayIsTheOffset ==
    [][/\ SweepOne(FALSE)
            => LET d == Head(loop.items)
               IN  YesterdayAsClaimed(states'[d], trackers'[d], loop.now)
       /\ \A g \in Devices :
             (DeviceUpdated(g, "on") \/ DeviceUpdated(g, "off")) /\ devState'[g] # devState[g]
                => \A d \in MapGet(by_target, g, {}) :
                      YesterdayAsClaimed(states'[d], trackers'[d], now)]_vars

\* C18 witness: the midnight pass has published timer 1 under the lock; its
\* interval holds 720.0 min of yesterday and its on-event is yesterday's, and
\* the sink has the offsets of 750.0 min and 3 events.
C18_Witness ==
    /\ ticked
    /\ now = DAY
    /\ trackers[1].yesterday_locked_for_date = DateOf(now)
    /\ trackers[1].intervals = << <<HALF_DAY, None>> >>
    /\ trackers[1].on_events = <<HALF_DAY>>
    /\ trackers[1].day_offsets.yesterday = 7500
    /\ trackers[1].count_offsets.yesterday = 3
    /\ MapGet(states[1], "timeon_yesterday", None) = 7500
    /\ MapGet(states[1], "oncount_yesterday", None) = 3
    /\ failed[1] = "never"

\* C18, the other case: timer 2 is published by deviceUpdated after midnight
\* while its lock is still the date of its registration, the rollover having
\* been interrupted before it.
C18_UnlockedWitness ==
    /\ now = DAY + REFRESH_INTERVAL_SECS
    /\ current_date = 0
    /\ trackers[2].yesterday_locked_for_date = 0
    /\ trackers[1].yesterday_locked_for_date = 1
    /\ Len(trackers[2].intervals) = 1
    /\ trackers[2].intervals[1] = <<HALF_DAY, now>>
    /\ MapGet(states[2], "timeon_yesterday", None)
          = 7200 + trackers[2].day_offsets.yesterday

-----------------------------------------------------------------------------
(* The event log and the order of the intervals (Spec) *)

C20_IntervalsOrderedAndDisjoint ==
    \A d \in DOMAIN trackers :
        LET intervals == trackers[d].intervals
        IN  \A i \in 1..(Len(intervals) - 1) :
                /\ intervals[i][2] # None
                /\ intervals[i][1] <= intervals[i][2]
                /\ intervals[i][2] <= intervals[i + 1][1]
                /\ intervals[i][1] <= intervals[i + 1][1]

\* C20 witness: an interval closed by a delivered turn-off at midnight and a
\* later one opened by a delivered turn-on after it.
C20_Witness ==
    /\ 1 \in DOMAIN trackers
    /\ now = DAY + REFRESH_INTERVAL_SECS
    /\ trackers[1].intervals = << <<HALF_DAY, DAY>>, <<DAY + REFRESH_INTERVAL_SECS, None>> >>
    /\ trackers[1].on_events = <<HALF_DAY, DAY + REFRESH_INTERVAL_SECS>>

-----------------------------------------------------------------------------
(* What a pass of the loop and a target update change (Spec) *)

\* C21: a pass of the loop leaves every tracker whose target exists and is
\* on with an open last interval: where the tracker had none open the pass
\* appends <<now, None>> to what pruning keeps, and where it had one open the
\* pass leaves that interval, still the last, as it was.
C21_PassOpensIntervalWhenOn ==
    [][Tick =>
          \A d \in DOMAIN trackers :
              CurrentOn(trackers[d].target_id) =>
                  LET before == trackers[d].intervals
                      after  == trackers'[d].intervals
                  IN  /\ LastOpen(after)
                      /\ IF LastOpen(before)
                         THEN after[Len(after)] = before[Len(before)]
                         ELSE after = Append(_prune_intervals(before, now), <<now, None>>)]_vars

\* C21 witness: the tracker was registered at noon with its target off, the
\* turn-on was not delivered, and the first pass after midnight has opened
\* the tracker's only interval.
C21_Witness ==
    /\ 1 \in DOMAIN trackers
    /\ ticked
    /\ now = DAY + REFRESH_INTERVAL_SECS
    /\ captured[1].date = 0
    /\ CurrentOn(trackers[1].target_id)
    /\ trackers[1].intervals = << <<now, None>> >>
    /\ trackers[1].on_events = <<>>

\* C22: a delivered update of a device whose onState is the same in the old
\* and the new snapshot (the same on/off value, or absent in both) leaves
\* the whole tracker table as it was and leaves, in the sink of every timer
\* watching the device, every time and count metric as it was.
C22_UnchangedUpdateIsNoOp ==
    [][\A g \in Devices, new_on \in {"on", "off", "none"} :
          DeviceUpdated(g, new_on) /\ new_on = devState[g]
             => /\ trackers' = trackers
                /\ \A d \in MapGet(by_target, g, {}), k \in MetricKeys :
                      MapGet(states'[d], k, None) = MapGet(states[d], k, None)]_vars

\* C22 witness: the tracker was registered with its target off, the target
\* turned on without a delivered event, and an update that carries on in
\* both snapshots has been delivered since: the sink shows the target on,
\* and the tracker has neither an interval nor an on-event.
C22_Witness ==
    /\ 1 \in DOMAIN trackers
    /\ trackers[1].target_id = 10
    /\ devState[10] = "on"
    /\ 1 \in MapGet(by_target, 10, {})
    /\ MapGet(states[1], "target_on_state", FALSE) = TRUE
    /\ trackers[1].intervals = <<>>
    /\ trackers[1].on_events = <<>>
    /\ ~ticked

\* C23: the rolling-window offsets of a tracker are those its registration
\* stored: no step other than a registration of the timer changes them, and
\* a pass of the loop with a rollover, which replaces day_offsets and
\* count_offsets, leaves them as they were.
C23_WindowOffsetsSetByRegistrationOnly ==
    [][/\ \A d \in DOMAIN trackers \cap DOMAIN trackers' :
             \/ \E target_str \in ConfigValues : Register(d, target_str)
             \/ trackers'[d].offsets = trackers[d].offsets
       /\ \A d \in DOMAIN trackers' : trackers'[d].offsets = captured'[d].offsets]_vars

\* C23 witness: a tracker registered at noon with rolling baselines of 30.0
\* min has seen its target turn on, has been rolled over at midnight (its
\* day offsets are no longer the captured ones) and swept, and its rolling
\* offsets are still 30.0 min each.
C23_Witness ==
    /\ 1 \in DOMAIN trackers
    /\ ticked
    /\ rolled[1] = DAY
    /\ captured[1].date = 0
    /\ trackers[1].on_events = <<HALF_DAY>>
    /\ trackers[1].day_offsets # captured[1].day_offsets
    /\ trackers[1].count_offsets # captured[1].count_offsets
    /\ trackers[1].offsets = [k \in WindowIds |-> 300]

-----------------------------------------------------------------------------
(* Re-registration and restart over an initially empty sink (SpecRestart) *)

\* The timer of the restart specification and its configured target.
RestartTimer == 1

RestartTarget == "10"

\* A first run of the plugin: the host has no state of any timer yet.
InitRestart ==
    /\ Init
    /\ states = [d \in Timers |-> EmptyMap]

\* deviceStartComm for the timer, for the first time or again (the host
\* restarts a device whose configuration was edited).
Reregister ==
    /\ nreg < MaxRestartRegisters
    /\ RegisterTimer(RestartTimer, RestartTarget)

\* The process ends and starts again: __init__ sets the remembered date to
\* now's date and empties the registry and the index, startup registers the
\* timer from what the sink holds.
Restart ==
    /\ RestartTimer \in DOMAIN trackers
    /\ nreg < MaxRestartRegisters
    /\ nreg' = nreg + 1
    /\ current_date' = DateOf(now)
    /\ LET tracker == NewTracker(RestartTarget, states[RestartTimer], now)
       IN  /\ trackers' = MapPut(EmptyMap, RestartTimer, tracker)
           /\ by_target' = RegisteredIndex(EmptyMap, EmptyMap, RestartTimer, RestartTarget)
           /\ states' = _update_target_meta_states(
                            states, RestartTimer, RegisteredMeta(RestartTarget),
                            OnStateOf(RegisteredMeta(RestartTarget)))
           /\ captured' = [captured EXCEPT ![RestartTimer] =
                              BaselinesOf(tracker, now)
                              @@ Replaced(EmptyMap, RestartTimer)
                              @@ Configured(RestartTarget)]
    /\ rolled' = [rolled EXCEPT ![RestartTimer] = None]
    /\ ticked' = FALSE
    /\ UNCHANGED <<now, devState, loop, ev, reg, calc, passVars>>

NextRestart ==
    \/ \E t \in ClockGrid : Advance(t)
    \/ Reregister
    \/ Restart
    \/ \E new_on \in {"on", "off"} : DeviceUpdated(IntOf(RestartTarget), new_on)
    \/ Tick

SpecRestart == InitRestart /\ [][NextRestart]_vars

\* The duration of window k in tenths of a minute.
WindowMinutes(k) == WindowSecs(k) \div 6

\* C24: in a run that starts from an empty sink, with re-registrations and
\* restarts, no rolling-window value in the sink exceeds the duration of its
\* window (timeon_24hours is at most 1440.0 min, and so on).
C24_WindowValueWithinWindow ==
    \A d \in Timers, k \in WindowIds :
        MapGet(states[d], k, 0) <= WindowMinutes(k)

-----------------------------------------------------------------------------
(* _prune_intervals interleaved with deviceUpdated (SpecPrune).
   The loop's thread and the host's callback share the interval list of the
   tracker and take no lock.  _prune_intervals builds the list keep from the
   intervals and afterwards, if the lengths differ, replaces the content of
   the list by keep; the callback may run between the two.  The other steps
   of the loop and of the callback are those of SpecRace.  The run starts at
   noon, three weeks after an interval of timer 1 closed, which is the
   instant that interval falls out of the retention. *)

\* The interval that the pass of the model prunes.
ExpiredInterval == <<0, HALF_DAY>>

PruneClock == HALF_DAY + RETENTION_SECONDS

InitPrune ==
    /\ now = PruneClock
    /\ devState \in {[g \in Devices |-> IF g = 10 THEN v ELSE "none"] : v \in {"on", "off"}}
    /\ current_date = DateOf(now)
    /\ \E expired \in {<<>>, <<ExpiredInterval>>} :
          trackers = MapPut(EmptyMap, RaceTimer,
                        [TargetTracker(10, EmptyMap, DAY) EXCEPT
                            !.intervals = expired \o @,
                            !.yesterday_locked_for_date = DateOf(now)])
    /\ by_target = IndexAdd(EmptyMap, 10, RaceTimer)
    /\ states = _update_target_meta_states([d \in Timers |-> EmptyMap], RaceTimer,
                                            10, devState[10])
    /\ captured = [d \in Timers |->
                      IF d = RaceTimer THEN BaselinesOf(trackers[d], 0) ELSE ZeroBaselines]
    /\ rolled = [d \in Timers |-> None]
    /\ ticked = FALSE
    /\ nreg = 0
    /\ loop = LoopIdle
    /\ ev = EvIdle
    /\ reg = RegIdle
    /\ calc = CalcIdle
    /\ stopThread = FALSE
    /\ failed = NoFailure
    /\ uninterrupted = NoRollover

\* Lines 558-564: the for loop over the intervals has built keep.
PruneKeep ==
    /\ loop.pc = "prune"
    /\ loop' = [loop EXCEPT !.pc = "replace"]
                @@ [keep |-> _prune_intervals(trackers[loop.d].intervals, loop.now)]
    /\ UNCHANGED <<now, devState, states, current_date, trackers, by_target, captured,
                   rolled, ticked, nreg, ev, reg, calc, passVars>>

\* Lines 565-566: len(keep) is compared with the length the list has now,
\* and intervals[:] = keep replaces the content; then line 395 prunes the
\* on_events.
PruneReplace ==
    /\ loop.pc = "replace"
    /\ LET obj == trackers[loop.d]
       IN  trackers' = [trackers EXCEPT ![loop.d] =
                           [obj EXCEPT
                               !.intervals = IF Len(loop.keep) # Len(obj.intervals)
                                             THEN loop.keep ELSE obj.intervals,
                               !.on_events = _prune_on_events(obj.on_events, loop.now)]]
    /\ loop' = [LoopIdle EXCEPT !.pc = "test", !.now = loop.now, !.d = loop.d]
    /\ UNCHANGED <<now, devState, states, current_date, by_target, captured, rolled,
                   ticked, nreg, ev, reg, calc, passVars>>

NextPrune ==
    \/ LoopBegin
    \/ PruneKeep
    \/ PruneReplace
    \/ LoopTest
    \/ LoopAppend
    \/ LoopPublish
    \/ \E new_on \in {"on", "off"} : EvBegin(10, new_on)
    \/ EvGet
    \/ EvTest
    \/ EvApply
    \/ EvPublish

SpecPrune == InitPrune /\ [][NextPrune]_vars

\* C25: the replacement of the list's content at the end of
\* _prune_intervals loses nothing that an event callback wrote in between:
\* every interval the list holds at that moment and that is inside the
\* retention (the callback's appended interval, or the interval it has just
\* closed, with its end) is in the list afterwards.
C25_PruneKeepsConcurrentEvent ==
    [][(loop.pc = "replace" /\ loop'.pc = "test")
          => LET before == trackers[loop.d].intervals
                 after  == trackers'[loop.d].intervals
             IN  \A i \in 1..Len(before) :
                     KeepInterval(before[i], loop.now)
                        => \E j \in 1..Len(after) : after[j] = before[i]]_vars

-----------------------------------------------------------------------------
(* The dates of what is published *)

\* The date the day and count offsets of timer d were written for: that of
\* its last rollover, or of its registration when it has not been rolled.
OffsetsDate(d) ==
    IF rolled[d] # None THEN DateOf(rolled[d]) ELSE captured[d].date

\* The rollover for now's date has been applied to timer d.
RolledForNow(d) ==
    /\ current_date = DateOf(now)
    /\ OffsetsDate(d) = DateOf(now)

\* C26: every publish of the time and count metrics of a tracker, by a pass
\* of the loop or by deviceUpdated on a transition of the target, happens
\* with the rollover for now's date applied: the remembered date is now's
\* date and the tracker's day and count offsets were written for that date.
C26_NoPublishMixesDates ==
    [][/\ Tick => \A d \in DOMAIN trackers' : RolledForNow(d)'
       /\ \A g \in Devices :
             (DeviceUpdated(g, "on") \/ DeviceUpdated(g, "off")) /\ devState'[g] # devState[g]
                => \A d \in MapGet(by_target, g, {}) : RolledForNow(d)']_vars

\* The day totals that a step has just published for timer d are possible
\* ones: timeon_today is at most the time elapsed since today's midnight and
\* timeon_yesterday at most 1440.0 min.
DayTotalsPossible(sink_d, t) ==
    /\ MapGet(sink_d, "timeon_today", 0) <= RoundMinutes(t - TodayStart(t))
    /\ MapGet(sink_d, "timeon_yesterday", 0) <= 24 * 60 * 10

\* C27: in a run that starts from an empty sink, with re-registrations and
\* restarts on the same or a later date, every publish of a tracker, by a
\* pass of the loop or by deviceUpdated, writes a timeon_today of at most
\* the time elapsed since midnight and a timeon_yesterday of at most 1440.0
\* min.
C27_DayTotalsWithinTheDay ==
    [][/\ Tick => \A d \in DOMAIN trackers' : DayTotalsPossible(states'[d], now)
       /\ \A g \in Devices :
             (DeviceUpdated(g, "on") \/ DeviceUpdated(g, "off")) /\ devState'[g] # devState[g]
                => \A d \in MapGet(by_target, g, {}) :
                      DayTotalsPossible(states'[d], now)]_vars

\* C28: when a pass of the loop has just ended, a tracker whose target
\* device exists has an open interval exactly when the target is on,
\* whatever device changes were not delivered before the pass.
C28_OpenExactlyWhenOnAfterPass ==
    ticked =>
        \A d \in DOMAIN trackers :
            DeviceExists(trackers[d].target_id)
               => (LastOpen(trackers[d].intervals) <=> CurrentOn(trackers[d].target_id))

====
